---- MODULE Spec2Model ----
(***************************************************************************)
(* Maze Shooter (src/main.cpp): the menu/playing state machine, the held-   *)
(* key motion integrator with per-axis collision, the jump integrator, the  *)
(* gun animation and the DDA raycaster of MazeShooter.                      *)
(*                                                                          *)
(* Numbers.  The program computes in IEEE doubles.  The model computes in   *)
(* fixed point: a double d is the integer round(d * Scale).  Products and   *)
(* quotients round to the nearest unit, as the double operations round to   *)
(* the nearest double.  1/0 is Inf and 0*Inf is NaN, as in IEEE arithmetic. *)
(* int(d), the C++ cast, truncates toward zero.                             *)
(***************************************************************************)
EXTENDS Integers, Sequences, FiniteSets, TLC

VARIABLES
    currentState, selectedMenuItem, running,
    keys,
    lastKeyDown,    \* history: per held key, its last event delivered was a key-down
    posX, posY, dirX, dirY, planeX, planeY,
    cameraHeight, verticalVelocity, isJumping,
    currentGunFrame, isShooting, animationTimer, lastAnimationTime,
    ticks,          \* the value SDL_GetTicks() returns now
    shotSounds,     \* number of Mix_PlayChannel(shootSound) calls so far
    view,           \* branch of render() taken by the last frame
    lastOp,         \* history: the last operation that ran
    airFrames,      \* history: jump-physics frames since the last jump trigger
    moves,          \* history: the motion sub-steps of the last frame
    looping,        \* run() is inside its while (running) loop
    budget,         \* frames the behaviour may still run (model bound)
    script,         \* bound: the key script still to play
    grid, ray,      \* the grid rays are cast in, and the last ray cast alone
    texel           \* the last call of getTexturePixel and what it returned

player == <<posX, posY, dirX, dirY, planeX, planeY,
            cameraHeight, verticalVelocity, isJumping>>
gun == <<currentGunFrame, isShooting, animationTimer, lastAnimationTime, shotSounds>>
vars == <<currentState, selectedMenuItem, running, keys, lastKeyDown, player, gun, ticks,
          view, lastOp, airFrames, moves, looping, budget, script, grid, ray, texel>>

----------------------------------------------------------------------------
(* Fixed-point arithmetic *)

\* One unit of the fixed-point representation of a double is 1/Scale.
Scale == 1000
\* cos and sin of ROT_SPEED are kept to 1/TrigScale.
TrigScale == 1000000
\* IEEE +infinity (1 / 0.0) and NaN (0 * infinity).
Inf == 2000000000
NaN == -2000000000

Abs(a) == IF a < 0 THEN -a ELSE a

\* a / b for b > 0, rounded to the nearest integer (halves away from zero).
RoundDiv(a, b) ==
    IF a >= 0 THEN (2 * a + b) \div (2 * b) ELSE -((2 * (-a) + b) \div (2 * b))

\* The double product a * b.
FMul(a, b) ==
    IF a = NaN \/ b = NaN THEN NaN
    ELSE IF Abs(a) = Inf \/ Abs(b) = Inf
         THEN IF a = 0 \/ b = 0 THEN NaN
              ELSE IF (a < 0) = (b < 0) THEN Inf ELSE -Inf
    ELSE RoundDiv(a * b, Scale)

\* The double quotient a / b.
FDiv(a, b) ==
    IF a = NaN \/ b = NaN THEN NaN
    ELSE IF b = 0 THEN IF a = 0 THEN NaN ELSE IF a > 0 THEN Inf ELSE -Inf
    ELSE IF b > 0 THEN RoundDiv(a * Scale, b) ELSE RoundDiv(-(a * Scale), -b)

\* The double sum a + b.
FAdd(a, b) ==
    IF a = NaN \/ b = NaN THEN NaN
    ELSE IF Abs(a) = Inf THEN (IF b = -a THEN NaN ELSE a)
    ELSE IF Abs(b) = Inf THEN b
    ELSE a + b

\* a < b on doubles: false when either side is NaN.
FLess(a, b) == a # NaN /\ b # NaN /\ a < b

\* std::abs on doubles.
FAbs(a) == IF a = NaN THEN NaN ELSE Abs(a)

\* The cast int(d): truncation toward zero.
IntCast(d) == IF d >= 0 THEN d \div Scale ELSE -((-d) \div Scale)

----------------------------------------------------------------------------
(* Program constants *)

SCREEN_WIDTH == 800
SCREEN_HEIGHT == 600
MAP_WIDTH == 24
MAP_HEIGHT == 24
MOVE_SPEED == 50
JUMP_SPEED == 150
GRAVITY == 10
GROUND_HEIGHT == 0
GUN_FRAMES == 4
ANIMATION_SPEED == 100
MENU_ITEM_COUNT == 2
\* cos(ROT_SPEED) and sin(ROT_SPEED) for ROT_SPEED = 0.03, in units of 1/TrigScale.
COS_ROT == 999550
SIN_ROT == 29996
\* SDL_Delay(16) at the end of every pass of run().
FRAME_DELAY == 16

STATE_MENU == "STATE_MENU"
STATE_PLAYING == "STATE_PLAYING"
MENU_NEW_GAME == 0
MENU_EXIT == 1

worldMap == <<
    <<1,1,1,1,1,1,1,1,1,1,1,1,1,1,1,1,1,1,1,1,1,1,1,1>>,
    <<1,0,0,0,0,0,0,0,0,0,0,0,0,0,0,0,0,0,0,0,0,0,0,1>>,
    <<1,0,0,0,0,0,0,0,0,0,0,0,0,0,0,0,0,0,0,0,0,0,0,1>>,
    <<1,0,0,0,0,0,0,0,0,0,0,0,0,0,0,0,0,0,0,0,0,0,0,1>>,
    <<1,0,0,0,0,0,2,2,2,2,2,0,0,0,0,3,0,3,0,3,0,0,0,1>>,
    <<1,0,0,0,0,0,2,0,0,0,2,0,0,0,0,0,0,0,0,0,0,0,0,1>>,
    <<1,0,0,0,0,0,2,0,0,0,2,0,0,0,0,3,0,0,0,3,0,0,0,1>>,
    <<1,0,0,0,0,0,2,0,0,0,2,0,0,0,0,0,0,0,0,0,0,0,0,1>>,
    <<1,0,0,0,0,0,2,2,0,2,2,0,0,0,0,3,0,3,0,3,0,0,0,1>>,
    <<1,0,0,0,0,0,0,0,0,0,0,0,0,0,0,0,0,0,0,0,0,0,0,1>>,
    <<1,0,0,0,0,0,0,0,0,0,0,0,0,0,0,0,0,0,0,0,0,0,0,1>>,
    <<1,0,0,0,0,0,0,0,0,0,0,0,0,0,0,0,0,0,0,0,0,0,0,1>>,
    <<1,0,0,0,0,0,0,0,0,0,0,0,0,0,0,0,0,0,0,0,0,0,0,1>>,
    <<1,0,0,0,0,0,0,0,0,0,0,0,0,0,0,0,0,0,0,0,0,0,0,1>>,
    <<1,0,0,0,0,0,0,0,0,0,0,0,0,0,0,0,0,0,0,0,0,0,0,1>>,
    <<1,0,0,0,0,0,0,0,0,0,0,0,0,0,0,0,0,0,0,0,0,0,0,1>>,
    <<1,4,4,4,4,4,4,4,4,0,0,0,0,0,0,0,0,0,0,0,0,0,0,1>>,
    <<1,4,0,4,0,0,0,0,4,0,0,0,0,0,0,0,0,0,0,0,0,0,0,1>>,
    <<1,4,0,0,0,0,5,0,4,0,0,0,0,0,0,0,0,0,0,0,0,0,0,1>>,
    <<1,4,0,4,0,0,0,0,4,0,0,0,0,0,0,0,0,0,0,0,0,0,0,1>>,
    <<1,4,4,4,4,4,4,4,4,0,0,0,0,0,0,0,0,0,0,0,0,0,0,1>>,
    <<1,0,0,0,0,0,0,0,0,0,0,0,0,0,0,0,0,0,0,0,0,0,0,1>>,
    <<1,0,0,0,0,0,0,0,0,0,0,0,0,0,0,0,0,0,0,0,0,0,0,1>>,
    <<1,1,1,1,1,1,1,1,1,1,1,1,1,1,1,1,1,1,1,1,1,1,1,1>> >>

\* Scancodes the handlers distinguish; OTHER stands for every other key.
MoveKeys == {"W", "S", "A", "D"}
TurnKeys == {"LEFT", "RIGHT"}
HeldKeys == MoveKeys \cup TurnKeys
FireKeys == {"LSHIFT", "RSHIFT", "X"}
ConfirmKeys == {"SPACE", "RETURN"}
Scancodes == HeldKeys \cup FireKeys \cup ConfirmKeys \cup {"ESCAPE", "UP", "DOWN", "OTHER"}

----------------------------------------------------------------------------
(* Grid *)

GridWidth(g) == Len(g)
GridHeight(g) == Len(g[1])
InGrid(g, x, y) == x >= 0 /\ x < GridWidth(g) /\ y >= 0 /\ y < GridHeight(g)

\* g[x][y] of the C++ array.  A read outside the array is undefined behaviour;
\* it yields OutOfGrid here, and no claim is settled on a state where it occurs.
OutOfGrid == -1
CellAt(g, x, y) == IF InGrid(g, x, y) THEN g[x + 1][y + 1] ELSE OutOfGrid

\* worldMap[int(x)][int(y)] == 0
IsEmpty(x, y) == CellAt(worldMap, IntCast(x), IntCast(y)) = 0

----------------------------------------------------------------------------
(* Player state *)

\* The pose startNewGame() and the constructor set.
InitialPose ==
    [posX |-> 22 * Scale, posY |-> 12 * Scale,
     dirX |-> -Scale, dirY |-> 0,
     planeX |-> 0, planeY |-> (66 * Scale) \div 100]

InitialJump ==
    [cameraHeight |-> GROUND_HEIGHT, verticalVelocity |-> 0, isJumping |-> FALSE]

Pose ==
    [posX |-> posX, posY |-> posY, dirX |-> dirX, dirY |-> dirY,
     planeX |-> planeX, planeY |-> planeY]

Jump ==
    [cameraHeight |-> cameraHeight, verticalVelocity |-> verticalVelocity,
     isJumping |-> isJumping]

Gun ==
    [currentGunFrame |-> currentGunFrame, isShooting |-> isShooting,
     animationTimer |-> animationTimer, lastAnimationTime |-> lastAnimationTime,
     shotSounds |-> shotSounds]

SetPose(p) ==
    /\ posX' = p.posX /\ posY' = p.posY
    /\ dirX' = p.dirX /\ dirY' = p.dirY
    /\ planeX' = p.planeX /\ planeY' = p.planeY

SetJump(j) ==
    /\ cameraHeight' = j.cameraHeight
    /\ verticalVelocity' = j.verticalVelocity
    /\ isJumping' = j.isJumping

SetGun(g) ==
    /\ currentGunFrame' = g.currentGunFrame
    /\ isShooting' = g.isShooting
    /\ animationTimer' = g.animationTimer
    /\ lastAnimationTime' = g.lastAnimationTime
    /\ shotSounds' = g.shotSounds

----------------------------------------------------------------------------
(* Motion integrator: the continuous-input part of handleEvents() *)

\* The pair with a y test that reads the x from before the x statement.
MoveStepOldX(x, y, mx, my) ==
    LET x1 == IF IsEmpty(x + mx, y) THEN x + mx ELSE x
        y1 == IF IsEmpty(x, y + my) THEN y + my ELSE y
    IN  <<x1, y1>>

\* The pair with the y statement left untested.
MoveStepFreeY(x, y, mx, my) ==
    LET x1 == IF IsEmpty(x + mx, y) THEN x + mx ELSE x
    IN  <<x1, y + my>>

\* The pair replaced by one test of the diagonal destination.
MoveStepCoupled(x, y, mx, my) ==
    IF IsEmpty(x + mx, y + my) THEN <<x + mx, y + my>> ELSE <<x, y>>

\* One "if (worldMap[..][..] == 0) posX += mx; if (...) posY += my;" pair:
\* the x test reads the current y, the y test reads the x the first
\* statement left in posX.
MoveStep(x, y, mx, my) ==
    LET x1 == IF IsEmpty(x + mx, y) THEN x + mx ELSE x
        y1 == IF IsEmpty(x1, y + my) THEN y + my ELSE y
    IN  <<x1, y1>>

\* The per-axis displacement a held movement key asks for.
KeyDelta(p, k) ==
    CASE k = "W" -> << FMul(p.dirX, MOVE_SPEED),  FMul(p.dirY, MOVE_SPEED)>>
      [] k = "S" -> <<-FMul(p.dirX, MOVE_SPEED), -FMul(p.dirY, MOVE_SPEED)>>
      [] k = "A" -> <<-FMul(p.planeX, MOVE_SPEED), -FMul(p.planeY, MOVE_SPEED)>>
      [] k = "D" -> << FMul(p.planeX, MOVE_SPEED),  FMul(p.planeY, MOVE_SPEED)>>

StepKey(p, held, k) ==
    IF held[k]
    THEN LET d == KeyDelta(p, k)
             r == MoveStep(p.posX, p.posY, d[1], d[2])
         IN  [p EXCEPT !.posX = r[1], !.posY = r[2]]
    ELSE p

\* a * t for a trigonometric constant t kept to 1/TrigScale.
TMul(a, t) == RoundDiv(a * t, TrigScale)

\* The rotation applied to the direction alone; the plane keeps its place.
RotateDirOnly(p, c, s) ==
    [p EXCEPT !.dirX = TMul(p.dirX, c) - TMul(p.dirY, s),
              !.dirY = TMul(p.dirX, s) + TMul(p.dirY, c)]

\* The 2D rotation applied to direction and plane, with cosine c and sine s.
Rotate(p, c, s) ==
    [p EXCEPT !.dirX = TMul(p.dirX, c) - TMul(p.dirY, s),
              !.dirY = TMul(p.dirX, s) + TMul(p.dirY, c),
              !.planeX = TMul(p.planeX, c) - TMul(p.planeY, s),
              !.planeY = TMul(p.planeX, s) + TMul(p.planeY, c)]

TurnLeft(p) == Rotate(p, COS_ROT, SIN_ROT)
TurnRight(p) == Rotate(p, COS_ROT, -SIN_ROT)

\* Movement, strafing and rotation of one frame, in the order of the code.
Motion(p, held) ==
    LET pw == StepKey(p, held, "W")
        ps == StepKey(pw, held, "S")
        pa == StepKey(ps, held, "A")
        pd == StepKey(pa, held, "D")
        pl == IF held["LEFT"] THEN TurnLeft(pd) ELSE pd
    IN  IF held["RIGHT"] THEN TurnRight(pl) ELSE pl

\* History of the frame's motion sub-steps: for each held movement key the
\* position before, the displacement asked for and the position after.
MoveRecord(p, held, k) ==
    IF held[k]
    THEN LET d == KeyDelta(p, k)
             q == StepKey(p, held, k)
         IN  <<[key |-> k, x0 |-> p.posX, y0 |-> p.posY, mx |-> d[1], my |-> d[2],
                x1 |-> q.posX, y1 |-> q.posY]>>
    ELSE <<>>

MoveHistory(p, held) ==
    LET pw == StepKey(p, held, "W")
        ps == StepKey(pw, held, "S")
        pa == StepKey(ps, held, "A")
    IN  MoveRecord(p, held, "W") \o MoveRecord(pw, held, "S")
        \o MoveRecord(ps, held, "A") \o MoveRecord(pa, held, "D")

\* The jump physics with a landing that only clears the flag.
JumpPhysicsNoReset(j) ==
    IF j.isJumping
    THEN LET h == j.cameraHeight + j.verticalVelocity
             v == j.verticalVelocity - GRAVITY
         IN  [cameraHeight |-> h, verticalVelocity |-> v,
              isJumping |-> ~(h <= GROUND_HEIGHT)]
    ELSE j

\* "Update jumping physics".
JumpPhysics(j) ==
    IF j.isJumping
    THEN LET h == j.cameraHeight + j.verticalVelocity
             v == j.verticalVelocity - GRAVITY
         IN  IF h <= GROUND_HEIGHT
             THEN [cameraHeight |-> GROUND_HEIGHT, verticalVelocity |-> 0,
                   isJumping |-> FALSE]
             ELSE [cameraHeight |-> h, verticalVelocity |-> v, isJumping |-> TRUE]
    ELSE j

----------------------------------------------------------------------------
(* Gun *)

\* shootGun() at time now; the shot sound is loaded and audio is enabled.
ShootGun(g, now) ==
    IF g.isShooting THEN g
    ELSE [currentGunFrame |-> 1, isShooting |-> TRUE, animationTimer |-> 0,
          lastAnimationTime |-> now, shotSounds |-> g.shotSounds + 1]

\* The fire keys restarting the shot whatever isShooting is.
FireEffectRestarts(k, g, now) ==
    IF k \in FireKeys
    THEN [currentGunFrame |-> 1, isShooting |-> TRUE, animationTimer |-> 0,
          lastAnimationTime |-> now, shotSounds |-> g.shotSounds + 1]
    ELSE g

\* The fire-key tests of handleGameEvents().
FireEffect(k, g, now) ==
    LET g1 == IF k \in {"LSHIFT", "RSHIFT"} /\ ~g.isShooting THEN ShootGun(g, now) ELSE g
    IN  IF k = "X" /\ ~g1.isShooting THEN ShootGun(g1, now) ELSE g1

\* updateGunAnimation() with the last sprite followed by frame 0 while the
\* shot stays in progress.
UpdateGunAnimationKeepsShooting(g, now) ==
    IF ~g.isShooting THEN [g EXCEPT !.currentGunFrame = 0]
    ELSE IF now - g.lastAnimationTime >= ANIMATION_SPEED
         THEN [g EXCEPT !.currentGunFrame = (g.currentGunFrame + 1) % GUN_FRAMES,
                        !.lastAnimationTime = now]
         ELSE g

\* updateGunAnimation() at time now.
UpdateGunAnimation(g, now) ==
    IF ~g.isShooting THEN [g EXCEPT !.currentGunFrame = 0]
    ELSE IF now - g.lastAnimationTime >= ANIMATION_SPEED
         THEN IF g.currentGunFrame + 1 >= GUN_FRAMES
              THEN [g EXCEPT !.currentGunFrame = 0, !.lastAnimationTime = now,
                             !.isShooting = FALSE]
              ELSE [g EXCEPT !.currentGunFrame = g.currentGunFrame + 1,
                             !.lastAnimationTime = now]
         ELSE g

----------------------------------------------------------------------------
(* Raycaster: one column of renderGame() *)

\* cameraX = 2 * x / double(SCREEN_WIDTH) - 1
CameraX(x) == RoundDiv(2 * x * Scale, SCREEN_WIDTH) - Scale

RayDirX(p, x) == p.dirX + FMul(p.planeX, CameraX(x))
RayDirY(p, x) == p.dirY + FMul(p.planeY, CameraX(x))

\* The state before the loop with a zero ray component taken for a negative
\* one.
DDAInitZeroAsNegative(px, py, rx, ry) ==
    LET mapX == IntCast(px)
        mapY == IntCast(py)
        deltaDistX == FAbs(FDiv(Scale, rx))
        deltaDistY == FAbs(FDiv(Scale, ry))
    IN  [mapX |-> mapX, mapY |-> mapY,
         deltaDistX |-> deltaDistX, deltaDistY |-> deltaDistY,
         stepX |-> IF rx <= 0 THEN -1 ELSE 1,
         stepY |-> IF ry <= 0 THEN -1 ELSE 1,
         sideDistX |-> IF rx <= 0 THEN FMul(px - mapX * Scale, deltaDistX)
                       ELSE FMul(mapX * Scale + Scale - px, deltaDistX),
         sideDistY |-> IF ry <= 0 THEN FMul(py - mapY * Scale, deltaDistY)
                       ELSE FMul(mapY * Scale + Scale - py, deltaDistY),
         side |-> -1, steps |-> 0, hit |-> 0, oob |-> FALSE]

\* The state of the DDA before its loop: start tile, delta distances, steps
\* and initial side distances.
DDAInit(px, py, rx, ry) ==
    LET mapX == IntCast(px)
        mapY == IntCast(py)
        deltaDistX == FAbs(FDiv(Scale, rx))
        deltaDistY == FAbs(FDiv(Scale, ry))
    IN  [mapX |-> mapX, mapY |-> mapY,
         deltaDistX |-> deltaDistX, deltaDistY |-> deltaDistY,
         stepX |-> IF rx < 0 THEN -1 ELSE 1,
         stepY |-> IF ry < 0 THEN -1 ELSE 1,
         sideDistX |-> IF rx < 0 THEN FMul(px - mapX * Scale, deltaDistX)
                       ELSE FMul(mapX * Scale + Scale - px, deltaDistX),
         sideDistY |-> IF ry < 0 THEN FMul(py - mapY * Scale, deltaDistY)
                       ELSE FMul(mapY * Scale + Scale - py, deltaDistY),
         side |-> -1, steps |-> 0, hit |-> 0, oob |-> FALSE]

\* The pass with a hit test that takes texture 1 for empty.
DDAStepSkipsTexture1(g, s) ==
    LET t == IF FLess(s.sideDistX, s.sideDistY)
             THEN [s EXCEPT !.sideDistX = FAdd(s.sideDistX, s.deltaDistX),
                            !.mapX = s.mapX + s.stepX, !.side = 0,
                            !.steps = s.steps + 1]
             ELSE [s EXCEPT !.sideDistY = FAdd(s.sideDistY, s.deltaDistY),
                            !.mapY = s.mapY + s.stepY, !.side = 1,
                            !.steps = s.steps + 1]
    IN  IF ~InGrid(g, t.mapX, t.mapY) THEN [t EXCEPT !.oob = TRUE]
        ELSE IF CellAt(g, t.mapX, t.mapY) > 1 THEN [t EXCEPT !.hit = 1]
        ELSE t

\* One pass of "while (hit == 0)": advance the nearer axis, then read the tile.
DDAStep(g, s) ==
    LET t == IF FLess(s.sideDistX, s.sideDistY)
             THEN [s EXCEPT !.sideDistX = FAdd(s.sideDistX, s.deltaDistX),
                            !.mapX = s.mapX + s.stepX, !.side = 0,
                            !.steps = s.steps + 1]
             ELSE [s EXCEPT !.sideDistY = FAdd(s.sideDistY, s.deltaDistY),
                            !.mapY = s.mapY + s.stepY, !.side = 1,
                            !.steps = s.steps + 1]
    IN  IF ~InGrid(g, t.mapX, t.mapY) THEN [t EXCEPT !.oob = TRUE]
        ELSE IF CellAt(g, t.mapX, t.mapY) > 0 THEN [t EXCEPT !.hit = 1]
        ELSE t

\* The loop.  A read outside the grid is undefined behaviour: the walk is cut
\* there and flagged oob.  Every step moves one tile along a fixed direction,
\* so on a finite grid the walk is cut or hits.
RECURSIVE DDAWalk(_, _)
DDAWalk(g, s) ==
    IF s.hit # 0 \/ s.oob THEN s ELSE DDAWalk(g, DDAStep(g, s))

\* perpWallDist measured to the far face of the tile hit.
PerpWallDistFarFace(s, px, py, rx, ry) ==
    IF s.side = 0
    THEN FDiv(s.mapX * Scale - px + ((1 + s.stepX) \div 2) * Scale, rx)
    ELSE FDiv(s.mapY * Scale - py + ((1 + s.stepY) \div 2) * Scale, ry)

\* perpWallDist; (1 - step) / 2 is the C++ integer division.
PerpWallDist(s, px, py, rx, ry) ==
    IF s.side = 0
    THEN FDiv(s.mapX * Scale - px + ((1 - s.stepX) \div 2) * Scale, rx)
    ELSE FDiv(s.mapY * Scale - py + ((1 - s.stepY) \div 2) * Scale, ry)

\* The ray of direction (rx, ry) cast from (px, py) in grid g.
CastRay(g, px, py, rx, ry) ==
    LET s == DDAWalk(g, DDAInit(px, py, rx, ry))
    IN  [mapX |-> s.mapX, mapY |-> s.mapY, side |-> s.side, steps |-> s.steps,
         hit |-> s.hit, oob |-> s.oob,
         sideDistX |-> s.sideDistX, sideDistY |-> s.sideDistY,
         rayDirX |-> rx, rayDirY |-> ry,
         perpWallDist |-> IF s.oob THEN NaN ELSE PerpWallDist(s, px, py, rx, ry)]

\* The ray of screen column x for pose p in worldMap.
CastColumn(p, x) ==
    CastRay(worldMap, p.posX, p.posY, RayDirX(p, x), RayDirY(p, x))

NoRay == [hit |-> -1]

----------------------------------------------------------------------------
(* Wall slices: renderGame() *)

\* Range of int.
IntMax == 2147483647
IntMin == -IntMax - 1

\* The C++ quotient a / b of two ints, b > 0: truncation toward zero.
IntDiv(a, b) == (a \div b) + (IF a < 0 /\ a % b # 0 THEN 1 ELSE 0)

\* Unary minus on int; the value without a positive counterpart wraps.
Neg32(a) == IF a = IntMin THEN IntMin ELSE -a

\* The values a conversion to int of a double that no int holds (infinite,
\* NaN, too large) may give.
UndefinedInts == {IntMin, -IntMax, -1, 0, 1, IntMax}

\* horizon of a frame drawn at camera height h.
Horizon(h) == SCREEN_HEIGHT \div 2 + IntCast(h * 100)

\* SCREEN_HEIGHT / perpWallDist.
SliceQuotient(perp) ==
    IF perp = NaN THEN NaN
    ELSE IF Abs(perp) = Inf THEN 0
    ELSE FDiv(SCREEN_HEIGHT * Scale, perp)

\* The values lineHeight may take.
LineHeights(perp) ==
    LET q == SliceQuotient(perp)
    IN  IF q = NaN \/ Abs(q) = Inf THEN UndefinedInts ELSE {IntCast(q)}

\* The draw range before the two clamps.
RawSlice(lineHeight, horizon) ==
    [drawStart |-> IntDiv(Neg32(lineHeight), 2) + horizon,
     drawEnd   |-> IntDiv(lineHeight, 2) + horizon]

\* The draw range with drawStart left as computed.
SliceNoLowClamp(lineHeight, horizon) ==
    LET r == RawSlice(lineHeight, horizon)
    IN  [drawStart |-> r.drawStart,
         drawEnd   |-> IF r.drawEnd >= SCREEN_HEIGHT THEN SCREEN_HEIGHT - 1
                       ELSE r.drawEnd]

\* drawStart and drawEnd of a slice.
Slice(lineHeight, horizon) ==
    LET r == RawSlice(lineHeight, horizon)
    IN  [drawStart |-> IF r.drawStart < 0 THEN 0 ELSE r.drawStart,
         drawEnd   |-> IF r.drawEnd >= SCREEN_HEIGHT THEN SCREEN_HEIGHT - 1
                       ELSE r.drawEnd]

\* The rows y the texture loop of a slice writes.
SliceRows(s) == s.drawStart .. s.drawEnd - 1

\* The index of pixel (x, y) in screenBuffer.
BufferIndex(x, y) == y * SCREEN_WIDTH + x

----------------------------------------------------------------------------
(* Texture cache: getTexturePixel() *)

TEXTURE_WIDTH == 64
TEXTURE_HEIGHT == 64
NUM_TEXTURES == 8

\* The low bits of an int kept for the bitwise operations: two's complement,
\* so a negative x is x + WordSize.
WordSize == 65536
LowBits(x) == x % WordSize

\* a & b on non-negative a and b, bit by bit.
RECURSIVE AndBits(_, _)
AndBits(a, b) ==
    IF a = 0 \/ b = 0 THEN 0
    ELSE (a % 2) * (b % 2) + 2 * AndBits(a \div 2, b \div 2)

\* "tex &= (size - 1)" cut down to a clamp to 0 .. size - 1.
WrapClamped(x, size) == IF x < 0 THEN 0 ELSE IF x > size - 1 THEN size - 1 ELSE x

\* "tex &= (size - 1)" on a C++ int.
Wrap(x, size) == AndBits(LowBits(x), size - 1)

\* The index test with its upper half left out.
BadTextureLowOnly(textureNum) == textureNum < 1

\* "textureNum < 1 || textureNum >= NUM_TEXTURES"
BadTexture(textureNum) == textureNum < 1 \/ textureNum >= NUM_TEXTURES

\* The colour 0xFFFF00FF the function returns without reading the array.
MAGENTA == [argb |-> "0xFFFF00FF"]
\* The content of texture[textureNum][offset]: every element a colour of its
\* own, so that reads of two different elements can be told apart.
TexelAt(textureNum, offset) == [texture |-> textureNum, offset |-> offset]
\* No element of the array was read.
NoRead == -1

\* getTexturePixel(textureNum, texX, texY): the colour returned and the
\* array element read.
GetTexturePixel(textureNum, texX, texY) ==
    LET x == Wrap(texX, TEXTURE_WIDTH)
        y == Wrap(texY, TEXTURE_HEIGHT)
    IN  IF BadTexture(textureNum)
        THEN [color |-> MAGENTA, index |-> NoRead, offset |-> NoRead]
        ELSE [color |-> TexelAt(textureNum, TEXTURE_WIDTH * y + x),
              index |-> textureNum, offset |-> TEXTURE_WIDTH * y + x]

NoTexel == [textureNum |-> 0]

----------------------------------------------------------------------------
(* Events and frames: handleEvents(), render(), run() *)

\* History tags: the operation that ran last and, where a handler tests a
\* flag, the value it found.
ConfirmTag == IF isJumping THEN "newGameMidJump" ELSE "newGame"
JumpTag == IF isJumping THEN "jumpIgnored" ELSE "jump"
FireTag == IF isShooting THEN "fireIgnored" ELSE "fire"

bookkeeping == <<view, airFrames, moves, looping, budget, script, grid, ray, texel, ticks>>

\* The record of the events delivered, after a key-down (down = TRUE) or a
\* key-up of k.
KeyEvent(k, down) ==
    IF k \in HeldKeys THEN [lastKeyDown EXCEPT ![k] = down] ELSE lastKeyDown

\* startNewGame() without the reset of the jump state.
StartNewGameKeepsJump ==
    /\ SetPose(InitialPose)
    /\ UNCHANGED <<cameraHeight, verticalVelocity, isJumping>>
    /\ currentState' = STATE_PLAYING

\* startNewGame()
StartNewGame ==
    /\ SetPose(InitialPose)
    /\ SetJump(InitialJump)
    /\ currentState' = STATE_PLAYING

\* handleMenuEvents(e) for e.type == SDL_KEYDOWN
MenuKeyDown(k) ==
    /\ looping
    /\ currentState = STATE_MENU
    /\ lastOp' = IF k \in {"SPACE", "RETURN"} /\ selectedMenuItem = MENU_NEW_GAME
                 THEN ConfirmTag ELSE "menuKey"
    /\ CASE k = "UP" ->
              /\ selectedMenuItem' = (selectedMenuItem - 1 + MENU_ITEM_COUNT) % MENU_ITEM_COUNT
              /\ UNCHANGED <<currentState, running, player>>
         [] k = "DOWN" ->
              /\ selectedMenuItem' = (selectedMenuItem + 1) % MENU_ITEM_COUNT
              /\ UNCHANGED <<currentState, running, player>>
         [] k \in {"SPACE", "RETURN"} ->
              IF selectedMenuItem = MENU_NEW_GAME
              THEN StartNewGame /\ UNCHANGED <<selectedMenuItem, running>>
              ELSE IF selectedMenuItem = MENU_EXIT
                   THEN running' = FALSE /\ UNCHANGED <<currentState, selectedMenuItem, player>>
                   ELSE UNCHANGED <<currentState, selectedMenuItem, running, player>>
         [] k = "ESCAPE" ->
              running' = FALSE /\ UNCHANGED <<currentState, selectedMenuItem, player>>
         [] OTHER -> UNCHANGED <<currentState, selectedMenuItem, running, player>>
    /\ airFrames' = IF currentState' = STATE_PLAYING THEN 0 ELSE airFrames
    /\ lastKeyDown' = KeyEvent(k, TRUE)
    /\ UNCHANGED <<keys, gun, view, moves, looping, budget, script, grid, ray, texel, ticks>>

\* handleMenuEvents(e) for e.type == SDL_KEYUP: nothing is written.
MenuKeyUp(k) ==
    /\ looping
    /\ currentState = STATE_MENU
    /\ lastOp' = "menuKey"
    /\ lastKeyDown' = KeyEvent(k, FALSE)
    /\ UNCHANGED <<currentState, selectedMenuItem, running, keys, player, gun, bookkeeping>>

\* The jump test without "&& !isJumping".
JumpEffectAirborne(k, j) ==
    IF k = "SPACE"
    THEN [j EXCEPT !.verticalVelocity = JUMP_SPEED, !.isJumping = TRUE]
    ELSE j

\* The jump test of handleGameEvents().
JumpEffect(k, j) ==
    IF k = "SPACE" /\ ~j.isJumping
    THEN [j EXCEPT !.verticalVelocity = JUMP_SPEED, !.isJumping = TRUE]
    ELSE j

\* handleGameEvents(e) for e.type == SDL_KEYDOWN
GameKeyDown(k) ==
    /\ looping
    /\ currentState = STATE_PLAYING
    /\ lastOp' = CASE k = "ESCAPE" -> "toMenu"
                   [] k = "SPACE" -> JumpTag
                   [] k \in FireKeys -> FireTag
                   [] OTHER -> "gameKey"
    /\ keys' = IF k \in HeldKeys THEN [keys EXCEPT ![k] = TRUE] ELSE keys
    /\ IF k = "ESCAPE"
       THEN /\ currentState' = STATE_MENU
            /\ selectedMenuItem' = MENU_NEW_GAME
            /\ UNCHANGED <<player, gun, airFrames>>
       ELSE /\ SetJump(JumpEffect(k, Jump))
            /\ SetGun(FireEffect(k, Gun, ticks))
            /\ airFrames' = IF k = "SPACE" /\ ~isJumping THEN 0 ELSE airFrames
            /\ UNCHANGED <<currentState, selectedMenuItem,
                           posX, posY, dirX, dirY, planeX, planeY>>
    /\ lastKeyDown' = KeyEvent(k, TRUE)
    /\ UNCHANGED <<running, view, moves, looping, budget, script, grid, ray, texel, ticks>>

\* handleGameEvents(e) for e.type == SDL_KEYUP
GameKeyUp(k) ==
    /\ looping
    /\ currentState = STATE_PLAYING
    /\ lastOp' = "gameKey"
    /\ keys' = IF k \in HeldKeys THEN [keys EXCEPT ![k] = FALSE] ELSE keys
    /\ lastKeyDown' = KeyEvent(k, FALSE)
    /\ UNCHANGED <<currentState, selectedMenuItem, running, player, gun, bookkeeping>>

\* An SDL_QUIT event: running is cleared; neither handler reads the event.
Quit ==
    /\ looping
    /\ running
    /\ running' = FALSE
    /\ lastOp' = "quit"
    /\ UNCHANGED <<currentState, selectedMenuItem, keys, lastKeyDown, player, gun, bookkeeping>>

\* The continuous input without its state test.
ContinuousInputAlways == TRUE

\* "if (currentState == STATE_PLAYING)" around the continuous input.
ContinuousInputRuns == currentState = STATE_PLAYING

\* render(): the branch taken.
RenderBranch(st) ==
    IF st = STATE_MENU THEN "menu" ELSE IF st = STATE_PLAYING THEN "game" ELSE "none"

\* A key script <<a, t, w>>: a frames with A held, then t frames with LEFT
\* held, then w frames with W held.  NoScript leaves the keys free.
NoScript == <<0, 0, 0>>
ScriptKeys(s) ==
    IF s[1] > 0 THEN {"A"} ELSE IF s[2] > 0 THEN {"LEFT"} ELSE IF s[3] > 0 THEN {"W"} ELSE {}
Advance(s) ==
    IF s[1] > 0 THEN <<s[1] - 1, s[2], s[3]>>
    ELSE IF s[2] > 0 THEN <<0, s[2] - 1, s[3]>>
    ELSE IF s[3] > 0 THEN <<0, 0, s[3] - 1>>
    ELSE s

\* The rest of one pass of run() once the event queue is empty: continuous
\* input, render(), SDL_Delay; dt is the time the pass takes.
Frame(dt) ==
    /\ looping
    /\ budget > 0
    /\ lastOp' = "frame"
    /\ IF ContinuousInputRuns
       THEN /\ SetPose(Motion(Pose, keys))
            /\ SetJump(JumpPhysics(Jump))
            /\ SetGun(UpdateGunAnimation(Gun, ticks))
            /\ moves' = MoveHistory(Pose, keys)
            /\ airFrames' = IF isJumping THEN airFrames + 1 ELSE airFrames
       ELSE /\ moves' = <<>>
            /\ UNCHANGED <<player, gun, airFrames>>
    /\ view' = RenderBranch(currentState)
    /\ ticks' = ticks + dt
    /\ looping' = running
    /\ budget' = budget - 1
    /\ script' = Advance(script)
    /\ UNCHANGED <<currentState, selectedMenuItem, running, keys, lastKeyDown, grid, ray, texel>>

----------------------------------------------------------------------------
(* The program from construction *)

Constructed(b) ==
    /\ currentState = STATE_MENU
    /\ selectedMenuItem = MENU_NEW_GAME
    /\ running = TRUE
    /\ keys = [k \in HeldKeys |-> FALSE]
    /\ lastKeyDown = [k \in HeldKeys |-> FALSE]
    /\ posX = InitialPose.posX /\ posY = InitialPose.posY
    /\ dirX = InitialPose.dirX /\ dirY = InitialPose.dirY
    /\ planeX = InitialPose.planeX /\ planeY = InitialPose.planeY
    /\ cameraHeight = GROUND_HEIGHT /\ verticalVelocity = 0 /\ isJumping = FALSE
    /\ currentGunFrame = 0 /\ isShooting = FALSE /\ animationTimer = 0
    /\ lastAnimationTime = 0
    /\ shotSounds = 0
    /\ ticks = 0
    /\ view = "none"
    /\ lastOp = "init"
    /\ airFrames = 0
    /\ moves = <<>>
    /\ looping = TRUE
    /\ budget = b
    /\ script = NoScript
    /\ grid = worldMap
    /\ ray = NoRay
    /\ texel = NoTexel

Events(K) ==
    \/ Quit
    \/ \E k \in K : MenuKeyDown(k)
    \/ \E k \in K : MenuKeyUp(k)
    \/ \E k \in K : GameKeyDown(k)
    \/ \E k \in K : GameKeyUp(k)

\* Frames one behaviour of Spec runs.
MaxFrames == 4
\* Keys delivered under Spec: every key the menu handler singles out, the
\* jump key and one movement key.
ControlKeys == {"W", "SPACE", "RETURN", "ESCAPE", "UP", "DOWN", "OTHER"}

Init == Constructed(MaxFrames)

Next ==
    \/ Events(ControlKeys)
    \/ Frame(FRAME_DELAY)

Spec == Init /\ [][Next]_vars

----------------------------------------------------------------------------
(* Jump arcs: the program driven by the jump, menu and confirm keys alone *)

\* Frames one behaviour of SpecJump runs: a whole jump arc and some more.
MaxJumpFrames == 33
JumpKeys == {"SPACE", "ESCAPE", "RETURN"}

InitJump == Constructed(MaxJumpFrames)

NextJump ==
    \/ \E k \in JumpKeys : MenuKeyDown(k)
    \/ \E k \in JumpKeys : GameKeyDown(k)
    \/ Frame(FRAME_DELAY)

SpecJump == InitJump /\ [][NextJump]_vars

(* Gun: the program driven by the fire, menu and confirm keys alone *)

\* Frames one behaviour of SpecGun runs.
MaxGunFrames == 5
\* Durations of a pass of run(): the delay alone, or a pass as long as one
\* animation frame.
DtSet == {FRAME_DELAY, ANIMATION_SPEED}
GunKeys == FireKeys \cup {"ESCAPE", "RETURN"}

InitGun == Constructed(MaxGunFrames)

NextGun ==
    \/ \E k \in GunKeys : MenuKeyDown(k)
    \/ \E k \in GunKeys : GameKeyDown(k)
    \/ \E dt \in DtSet : Frame(dt)

SpecGun == InitGun /\ [][NextGun]_vars

\* The frames that take a shot to its end at the latest, when every pass of
\* run() lasts FRAME_DELAY ms only: the frame of the pass that fired, in which
\* no time has gone by, then for each of the GUN_FRAMES - 1 steps the frames
\* that make up ANIMATION_SPEED ms.
RestFrames ==
    1 + (GUN_FRAMES - 1) * ((ANIMATION_SPEED + FRAME_DELAY - 1) \div FRAME_DELAY)
\* Frames one behaviour of SpecGunFair runs.
MaxRestFrames == 23

InitGunFair == Constructed(MaxRestFrames)

\* The gun keys with the clock at its slowest: every pass lasts FRAME_DELAY.
NextGunFair ==
    \/ \E k \in GunKeys : MenuKeyDown(k)
    \/ \E k \in GunKeys : GameKeyDown(k)
    \/ Frame(FRAME_DELAY)

\* run() goes through its loop again and again while running is set, and
\* each pass takes time: a frame that can run does run.
SpecGunFair ==
    InitGunFair /\ [][NextGunFair]_vars /\ WF_vars(Frame(FRAME_DELAY))

----------------------------------------------------------------------------
(* Motion near walls: play resumed from poses reached by key scripts *)

Held(K) == [k \in HeldKeys |-> k \in K]

\* Key scripts that end beside walls: none (the new-game pose), a diagonal
\* approach to the free corner of the block at tile (20, 8), a head-on
\* approach to that block ending one step short of it, and a diagonal
\* approach to the face of the block at tile (20, 7).
MoveScripts == {<<0, 0, 0>>, <<61, 26, 27>>, <<92, 0, 19>>, <<92, 26, 28>>}

\* Frames one behaviour of SpecMove runs after its script.
MaxMoveFrames == 2

\* Keys free after the script: the four movement keys and the jump key (the
\* scripts do the turning).
MotionKeys == MoveKeys \cup {"SPACE"}

\* Screen columns whose rays are examined: both edges, the centre and the
\* quarter points.
Columns == {0, SCREEN_WIDTH \div 4, SCREEN_WIDTH \div 2,
            3 * (SCREEN_WIDTH \div 4), SCREEN_WIDTH - 1}

\* The state startNewGame() leaves, with script s to play.
NewGameStarted(s, b) ==
    /\ currentState = STATE_PLAYING
    /\ selectedMenuItem = MENU_NEW_GAME
    /\ running = TRUE
    /\ keys = [k \in HeldKeys |-> FALSE]
    /\ lastKeyDown = [k \in HeldKeys |-> FALSE]
    /\ posX = InitialPose.posX /\ posY = InitialPose.posY
    /\ dirX = InitialPose.dirX /\ dirY = InitialPose.dirY
    /\ planeX = InitialPose.planeX /\ planeY = InitialPose.planeY
    /\ cameraHeight = GROUND_HEIGHT /\ verticalVelocity = 0 /\ isJumping = FALSE
    /\ currentGunFrame = 0 /\ isShooting = FALSE /\ animationTimer = 0
    /\ lastAnimationTime = 0
    /\ shotSounds = 0
    /\ ticks = 0
    /\ view = "game"
    /\ lastOp = "init"
    /\ airFrames = 0
    /\ moves = <<>>
    /\ looping = TRUE
    /\ budget = s[1] + s[2] + s[3] + b
    /\ script = s
    /\ grid = worldMap
    /\ ray = NoRay
    /\ texel = NoTexel

InitMove == \E s \in MoveScripts : NewGameStarted(s, MaxMoveFrames)

\* While the script lasts, the key events are those that make the held keys
\* the script's and a frame runs once they are; afterwards any motion key
\* may go down or up while a frame of the run is still to come.
NextMove ==
    \/ /\ script # NoScript
       /\ \E k \in ScriptKeys(script) : ~keys[k] /\ GameKeyDown(k)
    \/ /\ script # NoScript
       /\ \E k \in HeldKeys \ ScriptKeys(script) : keys[k] /\ GameKeyUp(k)
    \/ /\ script = NoScript /\ budget > 0
       /\ \E k \in MotionKeys : GameKeyDown(k)
    \/ /\ script = NoScript /\ budget > 0
       /\ \E k \in MotionKeys : GameKeyUp(k)
    \/ /\ script # NoScript => keys = Held(ScriptKeys(script))
       /\ Frame(FRAME_DELAY)

SpecMove == InitMove /\ [][NextMove]_vars

----------------------------------------------------------------------------
(* Frames drawn near walls and in the air *)

\* Frames one behaviour of SpecSlice runs after its script.
MaxSliceFrames == 2

\* The highest camera height of a jump: JUMP_SPEED + (JUMP_SPEED - GRAVITY)
\* + ... + GRAVITY.
JumpPeak == (JUMP_SPEED * (JUMP_SPEED \div GRAVITY + 1)) \div 2

InitSlice == \E s \in MoveScripts : NewGameStarted(s, MaxSliceFrames)

\* The scripted walk of SpecMove, with the jump key free at any moment.
NextSlice ==
    \/ /\ script # NoScript
       /\ \E k \in ScriptKeys(script) : ~keys[k] /\ GameKeyDown(k)
    \/ /\ script # NoScript
       /\ \E k \in HeldKeys \ ScriptKeys(script) : keys[k] /\ GameKeyUp(k)
    \/ /\ budget > 0
       /\ GameKeyDown("SPACE")
    \/ /\ script # NoScript => keys = Held(ScriptKeys(script))
       /\ Frame(FRAME_DELAY)

SpecSlice == InitSlice /\ [][NextSlice]_vars

----------------------------------------------------------------------------
(* One ray cast in a sealed grid *)

\* A 3 x 3 room and a 5 x 4 grid with one inner block, both with a border of
\* walls, beside the program's own map.
Room == <<<<1, 1, 1>>, <<1, 0, 1>>, <<1, 1, 1>>>>
Maze == <<<<1, 1, 1, 1>>, <<1, 0, 0, 1>>, <<1, 0, 2, 1>>, <<1, 0, 0, 1>>,
          <<1, 1, 1, 1>>>>
RayGrids == {worldMap, Room, Maze}

\* Every tile of the outer border of g is a wall.
Sealed(g) ==
    \A x \in 0 .. GridWidth(g) - 1 : \A y \in 0 .. GridHeight(g) - 1 :
        (x = 0 \/ y = 0 \/ x = GridWidth(g) - 1 \/ y = GridHeight(g) - 1)
            => CellAt(g, x, y) > 0

\* Offsets of a position inside its tile, in units of 1/Scale: on the low
\* edge, next to it, the middle, next to the high edge.
TileOffsets == {0, 1, Scale \div 2, Scale - 1}

\* Components of the ray directions: unit, nearly zero and zero, of both signs,
\* and one in between.
RayComponents == {-Scale, -(Scale \div 3), -1, 0, 1, Scale \div 3, Scale}

\* Before the cast the player stands in the middle of tile (1, 1), which is
\* empty in each of the grids.
InitRay ==
    /\ grid \in RayGrids
    /\ Sealed(grid)
    /\ CellAt(grid, 1, 1) = 0
    /\ posX = Scale + Scale \div 2 /\ posY = Scale + Scale \div 2
    /\ dirX = InitialPose.dirX /\ dirY = InitialPose.dirY
    /\ planeX = InitialPose.planeX /\ planeY = InitialPose.planeY
    /\ ray = NoRay
    /\ texel = NoTexel
    /\ currentState = STATE_PLAYING
    /\ selectedMenuItem = MENU_NEW_GAME
    /\ running = TRUE
    /\ keys = [k \in HeldKeys |-> FALSE]
    /\ lastKeyDown = [k \in HeldKeys |-> FALSE]
    /\ cameraHeight = GROUND_HEIGHT /\ verticalVelocity = 0 /\ isJumping = FALSE
    /\ currentGunFrame = 0 /\ isShooting = FALSE /\ animationTimer = 0
    /\ lastAnimationTime = 0
    /\ shotSounds = 0
    /\ ticks = 0
    /\ view = "game"
    /\ lastOp = "init"
    /\ airFrames = 0
    /\ moves = <<>>
    /\ looping = TRUE
    /\ budget = 0
    /\ script = NoScript

\* The player stands at offset (fx, fy) inside the empty tile (tx, ty) and
\* one ray of direction (rx, ry) is cast from there.
Cast(tx, ty, fx, fy, rx, ry) ==
    /\ CellAt(grid, tx, ty) = 0
    /\ posX' = tx * Scale + fx
    /\ posY' = ty * Scale + fy
    /\ dirX' = rx
    /\ dirY' = ry
    /\ ray' = CastRay(grid, tx * Scale + fx, ty * Scale + fy, rx, ry)
    /\ lastOp' = "cast"
    /\ UNCHANGED <<currentState, selectedMenuItem, running, keys, lastKeyDown, planeX, planeY,
                   cameraHeight, verticalVelocity, isJumping, gun,
                   ticks, view, airFrames, moves, looping, budget, script, grid, texel>>

\* One cast per behaviour.
NextRay ==
    /\ ray = NoRay
    /\ \E tx \in 0 .. GridWidth(grid) - 1, ty \in 0 .. GridHeight(grid) - 1 :
         \E fx, fy \in TileOffsets :
            \E rx, ry \in RayComponents : Cast(tx, ty, fx, fy, rx, ry)

SpecRay == InitRay /\ [][NextRay]_vars

----------------------------------------------------------------------------
(* Turning on the spot *)

\* Frames one behaviour of SpecTurn runs.
MaxTurnFrames == 6

InitTurn == NewGameStarted(NoScript, MaxTurnFrames)

NextTurn ==
    \/ budget > 0 /\ \E k \in TurnKeys : GameKeyDown(k)
    \/ budget > 0 /\ \E k \in TurnKeys : GameKeyUp(k)
    \/ Frame(FRAME_DELAY)

SpecTurn == InitTurn /\ [][NextTurn]_vars

----------------------------------------------------------------------------

(* Calls of getTexturePixel *)

\* Texture indices asked for: below, at and above both ends of the valid
\* range, and 99.
TextureNums == {-1, 0, 1, 2, NUM_TEXTURES - 1, NUM_TEXTURES, 99}
\* Texture coordinates asked for: around zero and around one and two periods,
\* of both signs.
TexCoords == {-129, -128, -65, -64, -63, -1, 0, 1, 31, 63, 64, 65, 127, 128, 129}

InitTex == NewGameStarted(NoScript, 0)

\* One call getTexturePixel(textureNum, texX, texY).
SampleTexture(textureNum, texX, texY) ==
    /\ texel' = [textureNum |-> textureNum, texX |-> texX, texY |-> texY,
                 got |-> GetTexturePixel(textureNum, texX, texY)]
    /\ lastOp' = "sample"
    /\ UNCHANGED <<currentState, selectedMenuItem, running, keys, lastKeyDown, player, gun,
                   ticks, view, airFrames, moves, looping, budget, script, grid, ray>>

\* One call per behaviour.
NextTex ==
    /\ texel = NoTexel
    /\ \E textureNum \in TextureNums : \E texX, texY \in TexCoords :
         SampleTexture(textureNum, texX, texY)

SpecTex == InitTex /\ [][NextTex]_vars

----------------------------------------------------------------------------
(* Claims *)

\* The tile test of one movement statement, on the candidate coordinates.
Blocked(x, y) == ~IsEmpty(x, y)

\* C1 (as amended): within one movement step the x move is applied iff the
\* tile at (candidate x, current y) is empty, and the y move is applied iff
\* the tile at (the x left by this step's x move, candidate y) is empty.
C1_AxisChecks ==
    \A i \in DOMAIN moves :
        LET r == moves[i]
        IN  /\ r.x1 = (IF IsEmpty(r.x0 + r.mx, r.y0) THEN r.x0 + r.mx ELSE r.x0)
            /\ r.y1 = (IF IsEmpty(r.x1, r.y0 + r.my) THEN r.y0 + r.my ELSE r.y0)

\* C1 (as stated): the y move is applied iff the tile at (old x, candidate
\* y) is empty.
C1_AsStated ==
    \A i \in DOMAIN moves :
        LET r == moves[i]
        IN  /\ r.x1 = (IF IsEmpty(r.x0 + r.mx, r.y0) THEN r.x0 + r.mx ELSE r.x0)
            /\ r.y1 = (IF IsEmpty(r.x0, r.y0 + r.my) THEN r.y0 + r.my ELSE r.y0)

\* A step whose x move changed the tile column and whose y test therefore
\* read a tile other than the one at the old x, with the other outcome.
C1_Witness ==
    \E i \in DOMAIN moves :
        LET r == moves[i]
        IN  /\ r.x1 # r.x0
            /\ IsEmpty(r.x1, r.y0 + r.my) # IsEmpty(r.x0, r.y0 + r.my)

\* C2: after every frame of play the player stands on an empty tile of the
\* map, and every tile the movement statements tested lies inside the map.
C2_PlayerOnEmptyTile ==
    /\ InGrid(worldMap, IntCast(posX), IntCast(posY))
    /\ IsEmpty(posX, posY)
    /\ \A i \in DOMAIN moves :
           LET r == moves[i]
           IN  /\ InGrid(worldMap, IntCast(r.x0 + r.mx), IntCast(r.y0))
               /\ InGrid(worldMap, IntCast(r.x1), IntCast(r.y0 + r.my))

\* A frame in which a wall refused a move on each axis (over its steps)
\* and the player stands on an empty tile.
C2_Witness ==
    /\ lastOp = "frame"
    /\ IsEmpty(posX, posY)
    /\ \E i \in DOMAIN moves : moves[i].mx # 0 /\ Blocked(moves[i].x0 + moves[i].mx, moves[i].y0)
    /\ \E i \in DOMAIN moves : moves[i].my # 0 /\ Blocked(moves[i].x1, moves[i].y0 + moves[i].my)

ConfirmNewGame ==
    /\ \E k \in ConfirmKeys : MenuKeyDown(k)
    /\ selectedMenuItem = MENU_NEW_GAME

\* C9: a ray cast from strictly inside an empty tile of a sealed grid stops
\* at a wall tile after at most GridWidth + GridHeight steps of the DDA loop,
\* and the loop reads no tile outside the grid.
C9_RayStopsAtWall ==
    ray # NoRay =>
        /\ ray.hit = 1
        /\ ~ray.oob
        /\ CellAt(grid, ray.mapX, ray.mapY) > 0
        /\ ray.steps <= GridWidth(grid) + GridHeight(grid)

\* A ray that took more steps than the grid is wide before it hit a wall.
C9_Witness ==
    /\ ray # NoRay
    /\ ray.hit = 1 /\ ~ray.oob
    /\ ray.steps > GridWidth(grid)

\* C10: in every frame rendered with the player on an empty tile, the ray of
\* every examined column hits a wall at a perpendicular distance strictly
\* greater than 0.
C10_PerpDistPositive ==
    (lastOp = "frame" /\ view = "game" /\ IsEmpty(posX, posY)) =>
        \A x \in Columns :
            LET r == CastColumn(Pose, x)
            IN  r.hit = 1 /\ FLess(0, r.perpWallDist)

\* C4: a confirm key in the menu with "New Game" selected moves to Playing
\* and leaves the player in the fixed initial pose, on the ground, with zero
\* vertical velocity and not jumping, whatever the player state was.
C4_NewGameResets ==
    [][ConfirmNewGame =>
          /\ currentState' = STATE_PLAYING
          /\ Pose' = InitialPose
          /\ Jump' = InitialJump]_vars

\* A new game was started from the menu while a jump was pending.
C4_Witness ==
    /\ lastOp = "newGameMidJump"
    /\ currentState = STATE_PLAYING
    /\ Pose = InitialPose
    /\ Jump = InitialJump

\* C5: in the menu nothing but the new-game reset changes the player state,
\* and the raycaster (renderGame) runs only in frames that find Playing.
C5_MenuFreezesPlayer ==
    /\ [][currentState = STATE_MENU => (UNCHANGED player \/ ConfirmNewGame)]_vars
    /\ [](lastOp = "frame" /\ view = "game" => currentState = STATE_PLAYING)
    /\ [](lastOp = "frame" /\ currentState = STATE_MENU => moves = <<>>)

\* A frame ran in the menu with a movement key held and a jump pending.
C5_Witness ==
    /\ currentState = STATE_MENU
    /\ lastOp = "frame"
    /\ view = "menu"
    /\ keys["W"]
    /\ isJumping

\* C6: a jump trigger on the ground sets the impulse and the airborne flag;
\* a jump trigger in the air changes none of cameraHeight, verticalVelocity,
\* isJumping.
C6_JumpOnlyFromGround ==
    [][GameKeyDown("SPACE") =>
          IF isJumping
          THEN UNCHANGED <<cameraHeight, verticalVelocity, isJumping>>
          ELSE /\ verticalVelocity' = JUMP_SPEED
               /\ isJumping'
               /\ cameraHeight' = cameraHeight]_vars

\* A jump trigger arrived in mid-air, after the arc had begun.
C6_Witness ==
    /\ lastOp = "jumpIgnored"
    /\ isJumping
    /\ verticalVelocity < JUMP_SPEED
    /\ cameraHeight > GROUND_HEIGHT

\* Airborne frames of one jump: the velocity falls from JUMP_SPEED by GRAVITY
\* a frame and the height returns to the ground when it reaches -JUMP_SPEED.
JumpArcFrames == (2 * JUMP_SPEED) \div GRAVITY + 1

\* C7: a jump ends within JumpArcFrames Playing frames; whenever the player
\* is not jumping the height is exactly the ground height and the velocity
\* exactly 0, and steps between grounded states change neither.
C7_JumpLands ==
    /\ [](isJumping => airFrames < JumpArcFrames)
    /\ [](~isJumping => cameraHeight = GROUND_HEIGHT /\ verticalVelocity = 0)
    /\ [][~isJumping /\ ~isJumping' => UNCHANGED <<cameraHeight, verticalVelocity>>]_vars

\* A jump ran its whole arc and landed, and a later frame found it grounded.
C7_Witness ==
    /\ ~isJumping
    /\ airFrames = JumpArcFrames
    /\ lastOp = "frame"
    /\ budget < MaxJumpFrames - JumpArcFrames
    /\ cameraHeight = GROUND_HEIGHT
    /\ verticalVelocity = 0

\* C8: a fire key pressed while isShooting changes none of currentGunFrame,
\* animationTimer, lastAnimationTime, isShooting and starts no shot sound.
C8_FireWhileShooting ==
    [][(\E k \in FireKeys : GameKeyDown(k)) /\ isShooting => UNCHANGED gun]_vars

\* A fire key arrived in the middle of the animation of an earlier shot.
C8_Witness ==
    /\ lastOp = "fireIgnored"
    /\ isShooting
    /\ currentGunFrame = 2
    /\ shotSounds = 1

\* The pose of the room scenario: the middle of tile (1, 1), facing +x, with
\* the plane of the new-game pose.
RoomPose ==
    [posX |-> Scale + Scale \div 2, posY |-> Scale + Scale \div 2,
     dirX |-> Scale, dirY |-> 0, planeX |-> 0, planeY |-> InitialPose.planeY]
\* The column whose cameraX is 0.
CentreColumn == SCREEN_WIDTH \div 2

\* C11: in the 3 x 3 room, from (1.5, 1.5) with direction (1, 0) and plane
\* (0, 0.66), the centre column has cameraX = 0 and its ray stops at the tile
\* with x = 2, with side 0 and perpendicular distance 0.5.
C11_RoomCentreRay ==
    (/\ ray # NoRay
     /\ grid = Room
     /\ posX = RoomPose.posX /\ posY = RoomPose.posY
     /\ ray.rayDirX = RayDirX(RoomPose, CentreColumn)
     /\ ray.rayDirY = RayDirY(RoomPose, CentreColumn))
    => /\ CameraX(CentreColumn) = 0
       /\ ray.hit = 1
       /\ ray.mapX = 2 /\ ray.mapY = 1
       /\ ray.side = 0
       /\ 2 * ray.perpWallDist = Scale

\* The centre ray of the room scenario was cast and hit the tile at x = 2.
C11_Witness ==
    /\ ray # NoRay
    /\ grid = Room
    /\ posX = RoomPose.posX /\ posY = RoomPose.posY
    /\ dirX = RoomPose.dirX /\ dirY = RoomPose.dirY
    /\ ray.rayDirX = RayDirX(RoomPose, CentreColumn) /\ ray.rayDirY = 0
    /\ ray.mapX = 2 /\ ray.side = 0

\* A call was made and its record is in texel.
Sampled == texel # NoTexel

\* C12: for index 0 and every index outside 1 .. NUM_TEXTURES - 1, whatever
\* the coordinates, the call returns 0xFFFF00FF and reads no array element;
\* for a valid index it reads one element of that texture, at an offset in
\* 0 .. TEXTURE_WIDTH * TEXTURE_HEIGHT - 1.
C12_SentinelOrInRange ==
    Sampled =>
        IF texel.textureNum \in 1 .. NUM_TEXTURES - 1
        THEN /\ texel.got.index = texel.textureNum
             /\ texel.got.offset \in 0 .. TEXTURE_WIDTH * TEXTURE_HEIGHT - 1
        ELSE /\ texel.got.color = MAGENTA
             /\ texel.got.index = NoRead
             /\ texel.got.offset = NoRead

\* Texture 99 was asked for with a negative coordinate and the sentinel came
\* back without a read.
C12_Witness ==
    /\ Sampled
    /\ texel.textureNum = 99
    /\ texel.texX < 0
    /\ texel.got.color = MAGENTA
    /\ texel.got.index = NoRead

\* Whole numbers of periods added to a coordinate.
Periods == {-2, -1, 1, 2}

\* C13: for a valid index, the colour returned for (u, v) is the colour
\* returned for (u + N * TEXTURE_WIDTH, v) and for (u, v + N * TEXTURE_HEIGHT),
\* for every N of either sign.
C13_SamplingPeriodic ==
    (Sampled /\ ~BadTexture(texel.textureNum)) =>
        \A N \in Periods :
            /\ GetTexturePixel(texel.textureNum, texel.texX + N * TEXTURE_WIDTH,
                               texel.texY).color = texel.got.color
            /\ GetTexturePixel(texel.textureNum, texel.texX,
                               texel.texY + N * TEXTURE_HEIGHT).color = texel.got.color

\* A valid texture was sampled at a negative u and at a v beyond one period,
\* and the element read is the one of the wrapped coordinates.
C13_Witness ==
    /\ Sampled
    /\ texel.textureNum = NUM_TEXTURES - 1
    /\ texel.texX = -1 /\ texel.texY = TEXTURE_HEIGHT + 1
    /\ texel.got.color = TexelAt(NUM_TEXTURES - 1, TEXTURE_WIDTH * 1 + (TEXTURE_WIDTH - 1))

Len2(x, y) == x * x + y * y
Dot(p) == p.dirX * p.planeX + p.dirY * p.planeY
\* Rotations one frame applies with the keys held.
TurnCount(held) ==
    (IF held["LEFT"] THEN 1 ELSE 0) + (IF held["RIGHT"] THEN 1 ELSE 0)
\* What the roundings of one rotation can add to a squared length or to the
\* dot product: each new component carries two roundings of half a unit, on
\* vectors no longer than about one Scale.
TurnTol == 3 * Scale
\* Turning left and then right brings every component of direction and plane
\* back to within two units.
RestoredWithinRounding(p) ==
    LET q == TurnRight(TurnLeft(p))
    IN  /\ Abs(q.dirX - p.dirX) <= 2 /\ Abs(q.dirY - p.dirY) <= 2
        /\ Abs(q.planeX - p.planeX) <= 2 /\ Abs(q.planeY - p.planeY) <= 2

\* C14 (as amended): a frame that turns n times changes the squared lengths
\* of direction and plane and their dot product by at most n rounding errors
\* (and a step that does not turn leaves the two vectors alone), and a turn
\* left followed by a turn right restores both vectors up to rounding.
C14_TurnsWithinRounding ==
    [][LET n == IF lastOp' = "frame" THEN TurnCount(keys) ELSE 0
       IN  /\ Abs(Len2(dirX', dirY') - Len2(dirX, dirY)) <= n * TurnTol
           /\ Abs(Len2(planeX', planeY') - Len2(planeX, planeY)) <= n * TurnTol
           /\ Abs(Dot(Pose') - Dot(Pose)) <= n * TurnTol
           /\ n = 0 => Pose' = Pose
           /\ RestoredWithinRounding(Pose')]_vars

\* C14 (as stated): the lengths of direction and plane and their angle equal
\* the initial ones, and a turn left followed by a turn right restores both
\* vectors.
C14_AsStated ==
    /\ Len2(dirX, dirY) = Len2(InitialPose.dirX, InitialPose.dirY)
    /\ Len2(planeX, planeY) = Len2(InitialPose.planeX, InitialPose.planeY)
    /\ Dot(Pose) = Dot(InitialPose)
    /\ TurnRight(TurnLeft(Pose)) = Pose

\* Every frame of the run was spent turning, the player faces another way,
\* and the direction is no longer of length one.
C14_Witness ==
    /\ lastOp = "frame"
    /\ budget = 0
    /\ dirY # InitialPose.dirY
    /\ Len2(dirX, dirY) # Len2(InitialPose.dirX, InitialPose.dirY)
    /\ Abs(Len2(dirX, dirY) - Len2(InitialPose.dirX, InitialPose.dirY))
          <= MaxTurnFrames * 2 * TurnTol

\* C15: a ray with one component exactly zero has an infinite side distance
\* on that axis, also from a position on the tile's edge, never leaves the
\* player's row or column of tiles on that axis, and stops at a wall reached
\* by a step on the other axis.
C15_ZeroComponentAxisIdle ==
    ray # NoRay =>
        /\ (ray.rayDirX = 0 /\ ray.rayDirY # 0) =>
              /\ ray.sideDistX = Inf
              /\ ray.mapX = IntCast(posX)
              /\ ray.hit = 1 /\ ~ray.oob /\ ray.side = 1
        /\ (ray.rayDirY = 0 /\ ray.rayDirX # 0) =>
              /\ ray.sideDistY = Inf
              /\ ray.mapY = IntCast(posY)
              /\ ray.hit = 1 /\ ~ray.oob /\ ray.side = 0

\* A ray with no x component, cast from the low x edge of a tile, that took
\* several steps along y before it hit a wall.
C15_Witness ==
    /\ ray # NoRay
    /\ ray.rayDirX = 0 /\ ray.rayDirY # 0
    /\ posX = IntCast(posX) * Scale
    /\ ray.sideDistX = Inf
    /\ ray.steps > 2 /\ ray.hit = 1

\* The frame just drawn was a frame of the game.
GameFrameDrawn == lastOp = "frame" /\ currentState = STATE_PLAYING

\* C16 for the slice lineHeight gives in column x under horizon.
SliceInBuffer(lineHeight, horizon, x) ==
    LET s == Slice(lineHeight, horizon)
    IN  /\ 0 <= s.drawStart
        /\ s.drawEnd <= SCREEN_HEIGHT - 1
        /\ \A y \in SliceRows(s) :
              /\ 0 <= BufferIndex(x, y)
              /\ BufferIndex(x, y) < SCREEN_WIDTH * SCREEN_HEIGHT
        /\ lineHeight >= 0 =>
              /\ s.drawStart <= horizon
              /\ horizon <= s.drawEnd \/ s.drawEnd = SCREEN_HEIGHT - 1

\* C16: in every frame of the game, the camera height lies between the ground
\* and the peak of a jump, the horizon is a row of the screen, and in every
\* column the slice has 0 <= drawStart and drawEnd <= SCREEN_HEIGHT - 1 and
\* writes only indices y * SCREEN_WIDTH + x inside the pixel buffer, whatever
\* int the conversion of SCREEN_HEIGHT / perpWallDist gives.
C16_SliceOnScreen ==
    GameFrameDrawn =>
        /\ GROUND_HEIGHT <= cameraHeight /\ cameraHeight <= JumpPeak
        /\ Horizon(cameraHeight) \in SCREEN_HEIGHT \div 2 .. SCREEN_HEIGHT - 1
        /\ \A x \in Columns :
              \A lineHeight \in LineHeights(CastColumn(Pose, x).perpWallDist) :
                 SliceInBuffer(lineHeight, Horizon(cameraHeight), x)

\* A frame drawn at the peak of a jump, so close to a wall that in the centre
\* column both clamps act.
C16_Witness ==
    /\ GameFrameDrawn
    /\ cameraHeight = JumpPeak
    /\ \E lineHeight \in LineHeights(CastColumn(Pose, SCREEN_WIDTH \div 2).perpWallDist) :
          LET r == RawSlice(lineHeight, Horizon(cameraHeight))
          IN  r.drawStart < 0 /\ r.drawEnd >= SCREEN_HEIGHT

\* C17: in every frame of the game a movement or turn key is recorded as held
\* only if the last event delivered for that key was a key-down.
C17_HeldOnlyIfDown ==
    GameFrameDrawn => \A k \in HeldKeys : keys[k] => lastKeyDown[k]

\* The gun at rest.
GunAtRest == ~isShooting /\ currentGunFrame = 0

\* C18: currentGunFrame is always in 0 .. GUN_FRAMES - 1, it is in
\* 1 .. GUN_FRAMES - 1 whenever isShooting, and a shot in progress, with the
\* frames to come that its animation needs and the program not about to
\* exit, leads to the gun at rest unless the game is left for the menu.
C18_GunFrameCycle ==
    /\ [](currentGunFrame \in 0 .. GUN_FRAMES - 1)
    /\ [](isShooting => currentGunFrame \in 1 .. GUN_FRAMES - 1)
    /\ (isShooting /\ running /\ budget >= RestFrames)
          ~> (GunAtRest \/ currentState = STATE_MENU)

\* A frame of the game that ended a shot after the longest animation.
C18_Witness ==
    /\ GameFrameDrawn
    /\ GunAtRest
    /\ shotSounds = 1
    /\ budget <= MaxRestFrames - RestFrames

====
